---- MODULE Spec2Model ----
(***************************************************************************)
(* A model of goreq (src/goreq.go): the Request descriptor, its chained    *)
(* configuration operations, Clone, and the Fetch pipeline (request        *)
(* materialization, retry loop, decompression, cookie capture, decode,     *)
(* status validation).                                                     *)
(*                                                                         *)
(* Go pointers and slices are modelled by a small heap: a descriptor holds *)
(* the id of its header map, of its URL object and of the backing array of *)
(* its cookie slice, so that the sharing Clone creates is visible.         *)
(* Errors are sequences of message parts (fmt.Sprintf output, in order).   *)
(***************************************************************************)
EXTENDS Integers, Sequences, FiniteSets, TLC

\* ---------------------------------------------------------------- bounds

\* Operations performed after construction in one behaviour.
MaxOps == 3
\* Largest Count of a DefaultRetryOptions the model installs.
MaxCount == 2

\* ------------------------------------------------------------- constants

Desc == {1, 2}
Other(d) == 3 - d

\* http.MethodGet ... http.MethodPut, the list Method checks against.
StdMethods == {"GET", "POST", "CONNECT", "DELETE", "OPTIONS", "PATCH", "TRACE", "HEAD", "PUT"}

\* net/http's validMethod: a method is a non-empty token; "" means GET.
NewRequestMethodOk(m) == m \in StdMethods \cup {"", "FOO"}

NilErr == <<>>
ErrCanceled == <<"context canceled">>
ErrParse == <<"parse: invalid URL">>
ErrParams == <<"incompatible query parameter">>
ErrMethod == <<"method incorrect">>
ErrMarshal == <<"json: unsupported type">>
ErrNewRequest == <<"net/http: invalid method">>
ErrGzipHeader == <<"gzip: invalid header">>
ErrRead == <<"unexpected EOF">>
ErrMultipart == <<"open: no such file or directory">>

\* resp.Status, the status line of a response with the given code.
StatusLine(code) ==
    CASE code = 200 -> "200 OK"
      [] code = 300 -> "300 Multiple Choices"
      [] code = 404 -> "404 Not Found"
      [] code = 503 -> "503 Service Unavailable"
      [] OTHER -> "000"

\* fmt.Sprintf("%s: status code incorrect", resp.Status)
StatusErr(code) == <<StatusLine(code), ": status code incorrect">>

\* fmt.Sprintf("%s: status code incorrect, error decode body: %s\n", ...)
StatusDecodeErr(code, inner) ==
    <<StatusLine(code), ": status code incorrect, error decode body: ">> \o inner \o <<"\n">>

\* The message of an error contains the given part.
Contains(err, part) == \E i \in 1..Len(err) : err[i] = part

\* ------------------------------------------------------------ the state

VARIABLES
    req,     \* the descriptors: Desc -> Request fields
    hmap,    \* header maps: id -> (key -> list of values)
    urls,    \* URL objects: id -> [path, query]
    carr,    \* backing arrays of cookie slices: id -> cells
    mp,      \* Multipart builders: id -> [ctxErr, made]
    xport,   \* http.Client objects: id -> Transport.Proxy
    tee,     \* the bytes.Buffer handed to ToBody: what was written to it
    last,    \* the last operation called and what it returned
    hist,    \* per descriptor: the last body-setting call, whether Method was called,
             \* whether Fetch was called
    nops     \* operations performed so far

vars == <<req, hmap, urls, carr, mp, xport, tee, last, hist, nops>>

\* ------------------------------------------------------- data and inputs

\* The destination types T the model instantiates Request[T] with.
DestTypes == {"string", "[]byte", "int", "bool", "struct"}

\* checkType: the zero value of T decides isJson once, in New.
checkType(T) == T \notin {"*[]byte", "[]byte", "*string", "string", "int", "*int"}

\* Byte strings: s as produced by the codec ("id": not compressed).
Bytes(codec, s) == [codec |-> codec, s |-> s]
NoBytes == Bytes("id", "")
len(b) == IF b.codec = "id" /\ b.s = "" THEN 0 ELSE 1

\* Values of type T, by their textual rendering; the zero value "var t T".
Val(T, b) == [ty |-> T, codec |-> b.codec, s |-> b.s]
Zero(T) ==
    CASE T = "int" -> Val(T, Bytes("id", "0"))
      [] T = "bool" -> Val(T, Bytes("id", "false"))
      [] T = "struct" -> Val(T, Bytes("id", "{}"))
      [] OTHER -> Val(T, NoBytes)

HKeys == {"Accept-Encoding", "User-Agent", "Content-Type", "X"}
NoHeaders == [k \in HKeys |-> <<>>]
\* New's default headers.
DefaultHeaders ==
    [NoHeaders EXCEPT !["Accept-Encoding"] = <<"deflate,gzip,zstd,br">>,
                      !["User-Agent"] = <<"SomniSom-goreq/1.0">>]

QKeys == {"a"}
NoQuery == [k \in QKeys |-> <<>>]

\* url.Parse of the links the model constructs descriptors with.
ParseURL(link) ==
    CASE link = "http://h/get" -> [ok |-> TRUE, path |-> "/get", query |-> NoQuery]
      [] link = "http://h/get?a=1" ->
            [ok |-> TRUE, path |-> "/get", query |-> [NoQuery EXCEPT !["a"] = <<"1">>]]
      [] link = "http://h/get?a=" ->
            [ok |-> TRUE, path |-> "/get", query |-> [NoQuery EXCEPT !["a"] = <<"">>]]
      [] link = "http://h/two?a=1&a=2" ->
            [ok |-> TRUE, path |-> "/two", query |-> [NoQuery EXCEPT !["a"] = <<"1", "2">>]]
      [] OTHER -> [ok |-> FALSE, path |-> "", query |-> NoQuery]

\* strings.TrimSpace on the proxy strings the model passes.
TrimSpace(s) ==
    CASE s = " " -> ""
      [] s = " http://p " -> "http://p"
      [] OTHER -> s

\* url.Parse of a trimmed proxy string succeeds.
ProxyParses(s) == s # ":bad"

\* json.Marshal of the payloads the model passes to BodyJson.
Marshal(dt) ==
    IF dt = "obj" THEN [err |-> NilErr, body |-> Bytes("id", "{\"test\":\"test\"}")]
    ELSE [err |-> ErrMarshal, body |-> NoBytes]

Clients == {"default", "stub"}
Builders == {"mOk", "mErr"}

\* emptyOptions, DefaultRetryOptions and a caller's own RetryOptions.
emptyOptions == [kind |-> "empty", Count |-> 0, HttpErrors |-> {}, HttpStatusCodes |-> {}]
DefaultRetryOptions(n, errs, codes) ==
    [kind |-> "default", Count |-> n, HttpErrors |-> errs, HttpStatusCodes |-> codes]

\* An http.Request as materialized; "nil", "blank" (new(http.Request)) or "req".
NilRequest ==
    [st |-> "nil", Method |-> "", body |-> NoBytes, src |-> "none",
     Header |-> NoHeaders, cookies |-> <<>>, path |-> "", query |-> NoQuery]
BlankRequest == [NilRequest EXCEPT !.st = "blank"]

\* A descriptor that does not exist yet.
NoRequest ==
    [origin |-> "none", T |-> "string", isJson |-> FALSE, ctxErr |-> FALSE,
     err |-> NilErr, u |-> 0, method |-> "", headers |-> 0, body |-> NoBytes,
     multipart |-> "nil", client |-> "default", proxy |-> "", retBody |-> "nil",
     finalReq |-> NilRequest, retryOptions |-> emptyOptions, lastResponse |-> 0,
     cookie |-> [arr |-> 0, len |-> 0]]

\* The transport was not asked.
NoAnswer ==
    [kind |-> "none", e |-> NilErr, status |-> 0, enc |-> "", wire |-> NoBytes,
     fail |-> FALSE, cookies |-> <<>>]

\* What the last call returned: of Fetch, the pair (t, err), whether it panicked,
\* the calls it made to the transport and to the policy, the request it sent, the
\* answer of the transport, the status of the response it got (0: none) and how
\* reading its body went ("ok", "setup": the decompressing reader could not be
\* made, "read": a Read failed), and the counters Sleep was called with.
NoCall ==
    [op |-> "none", d |-> 0, args |-> <<>>, panic |-> FALSE, err |-> NilErr,
     val |-> Zero("string"), do |-> 0, repeat |-> 0, sleep |-> 0, status |-> 0,
     read |-> "none", sent |-> NilRequest, resp |-> NoAnswer, sleeps |-> <<>>]
Call(op, d, args) == [NoCall EXCEPT !.op = op, !.d = d, !.args = args]

NoHist == [bodyOp |-> "none", body |-> NoBytes, methodCalled |-> FALSE, fetched |-> FALSE]

\* The program state as one record, so that operations compose.
World ==
    [req |-> req, hmap |-> hmap, urls |-> urls, carr |-> carr, mp |-> mp,
     xport |-> xport, tee |-> tee]

\* r.ctx.Err() != nil
ctxErr(w, d) == w.req[d].ctxErr

\* contextErr: cancel the descriptor's context with the cause, unless err is nil.
contextErr(r, err) == IF err = NilErr THEN r ELSE [r EXCEPT !.ctxErr = TRUE]

\* The cookie list of a descriptor: the cells of its slice.
cookieList(w, d) ==
    LET c == w.req[d].cookie IN
    IF c.arr = 0 THEN <<>> ELSE SubSeq(w.carr[c.arr], 1, c.len)

\* The header map and the URL a descriptor points to.
headersOf(w, d) == IF w.req[d].headers = 0 THEN NoHeaders ELSE w.hmap[w.req[d].headers]
urlOf(w, d) ==
    IF w.req[d].u = 0 THEN [path |-> "", query |-> NoQuery] ELSE w.urls[w.req[d].u]

\* --------------------------------------------------- the cookie slices

\* Backing arrays no descriptor refers to are garbage: their cells are dropped.
collect(w) ==
    [w EXCEPT !.carr = [i \in DOMAIN w.carr |->
        IF \E d \in Desc : w.req[d].cookie.arr = i THEN w.carr[i] ELSE <<>>]]

\* A backing array the other descriptor does not refer to.
freeArr(w, d) == CHOOSE i \in DOMAIN w.carr : i # w.req[Other(d)].cookie.arr

\* r.cookie = cells, a slice over an array of its own (len = cap); nil when empty.
setCookie(w, d, cells) ==
    IF cells = <<>> THEN collect([w EXCEPT !.req[d].cookie = [arr |-> 0, len |-> 0]])
    ELSE LET i == freeArr(w, d) IN
         collect([w EXCEPT !.req[d].cookie = [arr |-> i, len |-> Len(cells)],
                           !.carr[i] = cells])

\* The cookie capture without the truncation: the response's cookies are added.
truncCookieKeep(w, d) == w

\* r.cookie = r.cookie[:0]: the same array, no element.
truncCookie(w, d) == [w EXCEPT !.req[d].cookie.len = 0]

\* r.cookie = append(r.cookie, c): in place while the array has room (the write is
\* seen by every slice over that array), else into a grown copy (Go doubles a
\* small capacity; 1 for an empty one).
appendCookie(w, d, c) ==
    LET sl == w.req[d].cookie
        cap == IF sl.arr = 0 THEN 0 ELSE Len(w.carr[sl.arr])
    IN  IF sl.len < cap
        THEN [w EXCEPT !.carr[sl.arr][sl.len + 1] = c, !.req[d].cookie.len = sl.len + 1]
        ELSE LET i == freeArr(w, d)
                 newcap == IF cap = 0 THEN 1 ELSE 2 * cap
                 old == IF sl.arr = 0 THEN <<>> ELSE SubSeq(w.carr[sl.arr], 1, sl.len)
                 cells == [k \in 1..newcap |->
                              IF k <= sl.len THEN old[k]
                              ELSE IF k = sl.len + 1 THEN c ELSE "nil"]
             IN  collect([w EXCEPT !.req[d].cookie = [arr |-> i, len |-> sl.len + 1],
                                   !.carr[i] = cells])

RECURSIVE appendCookies(_, _, _)
\* for _, cookie := range resp.Cookies() { r.cookie = append(r.cookie, cookie) }
appendCookies(w, d, cs) ==
    IF cs = <<>> THEN w ELSE appendCookies(appendCookie(w, d, Head(cs)), d, Tail(cs))

\* ----------------------------------------------- construction and Clone

\* New[T](ctx, link) into slot d, with a live ctx.
New(w, d, T, link) ==
    LET pu == ParseURL(link)
        r == [NoRequest EXCEPT
                !.origin = "New", !.T = T, !.isJson = checkType(T),
                !.method = "GET", !.headers = d, !.client = "default",
                !.retryOptions = emptyOptions,
                !.u = IF pu.ok THEN d ELSE 0,
                !.err = IF pu.ok THEN NilErr ELSE ErrParse]
    IN  [w EXCEPT !.req[d] = contextErr(r, r.err),
                  !.hmap[d] = DefaultHeaders,
                  !.urls[d] = [path |-> pu.path, query |-> pu.query]]

\* Clone: *rq = *r copies every field, pointers and slice headers included; only
\* a nil finalReq is replaced, by new(http.Request).
Clone(w, src, dst) ==
    LET r == w.req[src] IN
    [w EXCEPT !.req[dst] = [r EXCEPT
        !.origin = "Clone",
        !.finalReq = IF r.finalReq.st = "nil" THEN BlankRequest ELSE r.finalReq]]

\* ------------------------------------------- configuration operations

Client(w, d, cl) ==
    IF ctxErr(w, d) THEN w ELSE [w EXCEPT !.req[d].client = cl]

Path(w, d, path) ==
    IF ctxErr(w, d) THEN w ELSE [w EXCEPT !.urls[w.req[d].u].path = path]

\* Cookie has no guard on the context.
Cookie(w, d, c) == setCookie(w, d, c)

\* q.Get(k): the first value of k, "" when there is none.
qGet(q, k) == IF q[k] = <<>> THEN "" ELSE q[k][1]

RECURSIVE paramsLoopAdd(_, _)
\* The loop of Params with q.Add only.
paramsLoopAdd(q, attr) ==
    IF Len(attr) = 0 THEN q
    ELSE IF Len(attr) > 1
         THEN paramsLoopAdd([q EXCEPT ![attr[1]] = Append(q[attr[1]], attr[2])],
                            SubSeq(attr, 3, Len(attr)))
         ELSE q

RECURSIVE paramsLoop(_, _)
\* The loop of Params over attr, on the parsed query q.
paramsLoop(q, attr) ==
    IF Len(attr) = 0 THEN q
    ELSE IF Len(attr) > 1
         THEN LET k == attr[1]
                  v == attr[2]
                  q2 == IF qGet(q, k) # "" THEN [q EXCEPT ![k] = <<v>>]
                        ELSE [q EXCEPT ![k] = Append(q[k], v)]
              IN  paramsLoop(q2, SubSeq(attr, 3, Len(attr)))
         ELSE q  \* not reached: Params returns before the loop on an odd count

\* Params with one error slot for a descriptor and its clone: an odd count
\* latches the error on both.
ParamsSharedSlot(w, d, attr) ==
    IF ctxErr(w, d) THEN w
    ELSE IF Len(attr) % 2 # 0
         THEN [w EXCEPT !.req = [x \in DOMAIN w.req |->
                  IF w.req[x].origin = "none" THEN w.req[x]
                  ELSE contextErr([w.req[x] EXCEPT !.err = ErrParams], ErrParams)]]
         ELSE [w EXCEPT !.urls[w.req[d].u].query = paramsLoop(@, attr)]

\* Params without the check of the count.
ParamsNoCheck(w, d, attr) ==
    IF ctxErr(w, d) THEN w
    ELSE [w EXCEPT !.urls[w.req[d].u].query = paramsLoop(@, attr)]

\* Params that cancels the context on an odd count without storing the error.
ParamsMutant(w, d, attr) ==
    IF ctxErr(w, d) THEN w
    ELSE IF Len(attr) % 2 # 0
         THEN [w EXCEPT !.req[d] = contextErr(@, ErrParams)]
         ELSE [w EXCEPT !.urls[w.req[d].u].query = paramsLoop(@, attr)]

Params(w, d, attr) ==
    IF ctxErr(w, d) THEN w
    ELSE IF Len(attr) % 2 # 0
         THEN [w EXCEPT !.req[d] = contextErr([@ EXCEPT !.err = ErrParams], ErrParams)]
         ELSE [w EXCEPT !.urls[w.req[d].u].query = paramsLoop(@, attr)]

RECURSIVE headersLoopSet(_, _)
\* The loop of Headers with assignment in place of append.
headersLoopSet(h, attr) ==
    IF Len(attr) = 0 THEN h
    ELSE IF Len(attr) > 1
         THEN headersLoopSet([h EXCEPT ![attr[1]] = <<attr[2]>>],
                             SubSeq(attr, 3, Len(attr)))
         ELSE [h EXCEPT ![attr[1]] = <<"">>]

RECURSIVE headersLoop(_, _)
\* The loop of Headers: pairs are appended, a trailing key gets "" appended.
headersLoop(h, attr) ==
    IF Len(attr) = 0 THEN h
    ELSE IF Len(attr) > 1
         THEN headersLoop([h EXCEPT ![attr[1]] = Append(@, attr[2])],
                          SubSeq(attr, 3, Len(attr)))
         ELSE [h EXCEPT ![attr[1]] = Append(@, "")]

\* Headers with the odd-count check of Params.
HeadersMutant(w, d, attr) ==
    IF ctxErr(w, d) THEN w
    ELSE IF Len(attr) % 2 # 0
         THEN [w EXCEPT !.req[d] = contextErr([@ EXCEPT !.err = ErrParams], ErrParams)]
         ELSE [w EXCEPT !.hmap[w.req[d].headers] = headersLoop(@, attr)]

Headers(w, d, attr) ==
    IF ctxErr(w, d) THEN w
    ELSE [w EXCEPT !.hmap[w.req[d].headers] = headersLoop(@, attr)]

\* Method checks the method the descriptor holds, r.method, against the list,
\* then stores the argument.
Method(w, d, method) ==
    IF ctxErr(w, d) THEN w
    ELSE LET r == w.req[d]
             r1 == IF r.method \notin StdMethods
                   THEN contextErr([r EXCEPT !.err = ErrMethod], ErrMethod)
                   ELSE r
         IN  [w EXCEPT !.req[d] = [r1 EXCEPT !.method = method]]

BodyJson(w, d, dt) ==
    IF ctxErr(w, d) THEN w
    ELSE LET m == Marshal(dt)
             w1 == [w EXCEPT !.req[d] =
                        contextErr([@ EXCEPT !.body = m.body, !.err = m.err], m.err)]
             w2 == Headers(w1, d, <<"Content-Type", "application/json">>)
         IN  [w2 EXCEPT !.req[d].method = "POST"]

BodyMultipart(w, d, m) ==
    IF ctxErr(w, d) THEN w
    ELSE [w EXCEPT !.req[d].method = "POST", !.req[d].multipart = m]

BodyRaw(w, d, raw) ==
    IF ctxErr(w, d) THEN w
    ELSE [w EXCEPT !.req[d].method = "POST", !.req[d].body = raw]

\* Proxy writes the proxy into the Transport of the client the descriptor points
\* to: a nil Transport is replaced by an *http.Transport, an *http.Transport is
\* updated in place, any other RoundTripper is left alone.
Proxy(w, d, proxy) ==
    IF ctxErr(w, d) THEN w
    ELSE LET p == TrimSpace(proxy)
             w1 == [w EXCEPT !.req[d].proxy = p]
             cl == w.req[d].client
         IN  IF p = "" THEN w1
             ELSE IF ~ProxyParses(p)
                  THEN [w1 EXCEPT !.req[d] =
                            contextErr([@ EXCEPT !.err = ErrParse], ErrParse)]
                  ELSE IF w.xport[cl].kind \in {"nil", "http"}
                       THEN [w1 EXCEPT !.xport[cl] = [kind |-> "http", proxy |-> p]]
                       ELSE w1

ToBody(w, d, b) ==
    IF ctxErr(w, d) THEN w
    ELSE IF b = "nil" THEN w
         ELSE [w EXCEPT !.req[d].retBody = b]

Retry(w, d, options) ==
    IF ctxErr(w, d) THEN w ELSE [w EXCEPT !.req[d].retryOptions = options]

\* ------------------------------------------------------ the retry policy

inStatusCode(p, statusCode) ==
    p.HttpStatusCodes = {} \/ statusCode \in p.HttpStatusCodes

\* errors.Is(err, httpErr) is equality on the transport errors of the model.
inHttpError(p, err) ==
    IF err = NilErr THEN FALSE
    ELSE p.HttpErrors = {} \/ err \in p.HttpErrors

\* A policy that never declines.
RepeatAlways(p, o) == TRUE

\* Repeat(response, err); response is nil when o.kind = "err". A "custom" policy
\* is a caller's implementation that asks for a retry on a listed status or error.
Repeat(p, o) ==
    CASE p.kind = "empty" -> FALSE
      [] p.kind = "default" ->
            IF o.kind = "err" THEN inHttpError(p, o.e)
            ELSE inHttpError(p, NilErr) /\ inStatusCode(p, o.status)
      [] OTHER ->
            IF o.kind = "err" THEN inHttpError(p, o.e) ELSE inStatusCode(p, o.status)

\* Sleep that refuses from the counter Count on.
SleepBelowCount(p, counter) == ~(counter >= p.Count)

\* Sleep(counter): refuses once the counter exceeds Count.
Sleep(p, counter) == ~(counter > p.Count)

\* request(): one client.Do; what the transport answers is the input o.
request(o) == [resp |-> o.kind = "resp", err |-> IF o.kind = "err" THEN o.e ELSE NilErr]

RECURSIVE retryLoop(_, _, _, _)
RECURSIVE retryLoopNoReturn(_, _, _, _)
\* The loop without the return on a transport error: Sleep is asked first.
retryLoopNoReturn(p, o, cnt, c) ==
    LET c1 == [c EXCEPT !.repeat = @ + 1] IN
    IF ~Repeat(p, o) THEN [c1 EXCEPT !.exit = "done"]
    ELSE LET c2 == [c1 EXCEPT !.sleep = @ + 1, !.sleeps = Append(@, cnt)] IN
         IF p.kind = "empty" THEN [c2 EXCEPT !.exit = "panic"]
         ELSE IF ~Sleep(p, cnt) THEN [c2 EXCEPT !.exit = "break"]
         ELSE retryLoopNoReturn(p, o, cnt + 1, c2)

\* for resp, r.err = r.request(); r.retryOptions.Repeat(resp, r.err); { ... }
\* from the evaluation of the condition on: the loop has no post statement, so the
\* request of the init statement is the only one. c counts the calls made.
retryLoop(p, o, cnt, c) ==
    LET c1 == [c EXCEPT !.repeat = @ + 1] IN
    IF ~Repeat(p, o) THEN [c1 EXCEPT !.exit = "done"]
    ELSE IF o.kind = "err" THEN [c1 EXCEPT !.exit = "return"]
    ELSE LET c2 == [c1 EXCEPT !.sleep = @ + 1, !.sleeps = Append(@, cnt)] IN
         IF p.kind = "empty" THEN [c2 EXCEPT !.exit = "panic"]
         ELSE IF ~Sleep(p, cnt) THEN [c2 EXCEPT !.exit = "break"]
         ELSE retryLoop(p, o, cnt + 1, c2)

\* The retry loop of Fetch: the init statement, then the loop.
retry(p, o) ==
    retryLoop(p, o, 1,
              [do |-> 1, repeat |-> 0, sleep |-> 0, sleeps |-> <<>>, exit |-> "done"])

\* --------------------------------------------------------- materialization

\* Multipart.make: closes the writer and hands out the buffer, then resets it;
\* a second make finds only the closing boundary.
make(m) ==
    [ctt |-> "multipart/form-data; boundary=b",
     data |-> Bytes("id", IF m.made THEN "--b--" ELSE "--b parts --b--")]

\* http.NewRequest(r.method, r.u.String(), body) of descriptor d.
NewRequest(w, d, body, src) ==
    LET r == w.req[d] IN
    IF NewRequestMethodOk(r.method)
    THEN [err |-> NilErr,
          rq |-> [st |-> "req", Method |-> IF r.method = "" THEN "GET" ELSE r.method,
                  body |-> body, src |-> src, Header |-> NoHeaders, cookies |-> <<>>,
                  path |-> urlOf(w, d).path, query |-> urlOf(w, d).query]]
    ELSE [err |-> ErrNewRequest, rq |-> NilRequest]

\* "Fix http method": r.finalReq.Method is read through the pointer.
fixMethod(rq) == IF rq.Method = "GET" THEN [rq EXCEPT !.Method = "POST"] ELSE rq

\* The tail of makeRequest: cookies, then the descriptor's headers over the
\* request's own.
finish(w, d) ==
    LET h == headersOf(w, d) IN
    [w EXCEPT !.req[d].finalReq.cookies = cookieList(w, d),
              !.req[d].finalReq.Header =
                  [k \in HKeys |-> IF h[k] # <<>> THEN h[k] ELSE @[k]]]

\* makeRequest: [w, res, err] with res "ok", "err" (err returned) or "panic".
makeRequest(w, d) ==
    LET r == w.req[d] IN
    IF len(r.body) > 0
    THEN IF r.finalReq.st = "nil" THEN [w |-> w, res |-> "panic", err |-> NilErr]
         ELSE LET n == NewRequest(w, d, r.body, "body")
                  w1 == [w EXCEPT !.req[d].finalReq = n.rq, !.req[d].err = n.err]
              IN  IF n.err # NilErr
                  THEN [w |-> [w1 EXCEPT !.req[d] = contextErr(@, n.err)],
                        res |-> "err", err |-> n.err]
                  ELSE [w |-> finish(w1, d), res |-> "ok", err |-> NilErr]
    ELSE IF r.multipart # "nil"
    THEN IF r.finalReq.st = "nil" THEN [w |-> w, res |-> "panic", err |-> NilErr]
         ELSE LET m == w.mp[r.multipart]
                  mk == make(m)
                  w1 == [w EXCEPT !.req[d].finalReq = fixMethod(@),
                                  !.mp[r.multipart].made = TRUE]
              IN  IF m.ctxErr
                  THEN [w |-> [w1 EXCEPT !.req[d] = contextErr(@, ErrCanceled)],
                        res |-> "err", err |-> ErrCanceled]
                  ELSE LET n == NewRequest(w, d, mk.data, "multipart")
                           w2 == [w1 EXCEPT !.req[d].finalReq = n.rq,
                                            !.req[d].err = n.err]
                       IN  IF n.err # NilErr
                           THEN [w |-> w2, res |-> "panic", err |-> NilErr]
                           ELSE [w |-> finish([w2 EXCEPT
                                        !.req[d].finalReq.Header["Content-Type"] =
                                            <<mk.ctt>>], d),
                                 res |-> "ok", err |-> NilErr]
    ELSE LET n == NewRequest(w, d, NoBytes, "none")
             w1 == [w EXCEPT !.req[d].finalReq = n.rq, !.req[d].err = n.err]
         IN  IF n.err # NilErr
             THEN [w |-> [w1 EXCEPT !.req[d] = contextErr(@, n.err)],
                   res |-> "err", err |-> n.err]
             ELSE [w |-> finish(w1, d), res |-> "ok", err |-> NilErr]

\* ------------------------------------------------ decompression, decode

ErrEOF == <<"EOF">>
ErrSyntax == <<"invalid character">>
ErrType == <<"json: cannot unmarshal">>

\* The compress check without the br case: a br body goes to the default case.
readBodyNoBr(o) ==
    LET plain == Bytes("id", o.wire.s) IN
    CASE o.enc = "gzip" ->
            IF o.wire.codec # "gzip"
            THEN [setup |-> FALSE, err |-> ErrGzipHeader, data |-> NoBytes]
            ELSE IF o.fail THEN [setup |-> TRUE, err |-> ErrRead, data |-> NoBytes]
            ELSE [setup |-> TRUE, err |-> NilErr, data |-> plain]
      [] o.enc = "zstd" ->
            IF o.wire.codec # o.enc \/ o.fail
            THEN [setup |-> TRUE, err |-> ErrRead, data |-> NoBytes]
            ELSE [setup |-> TRUE, err |-> NilErr, data |-> plain]
      [] OTHER ->
            IF o.fail THEN [setup |-> TRUE, err |-> ErrRead, data |-> NoBytes]
            ELSE [setup |-> TRUE, err |-> NilErr, data |-> o.wire]

\* The "compress check" switch and the read of the body through the reader it
\* selects. o.wire is the body as sent, compressed by o.wire.codec; o.fail is a
\* read that fails under way. gzip.NewReader reads the header at once; the brotli
\* and zstd readers meet a body that is not theirs on the first Read; any other
\* Content-Encoding hands the body over as it is.
\* [setup: the reader was made, err: the error of making or reading, data]
readBody(o) ==
    LET plain == Bytes("id", o.wire.s) IN
    CASE o.enc = "gzip" ->
            IF o.wire.codec # "gzip"
            THEN [setup |-> FALSE, err |-> ErrGzipHeader, data |-> NoBytes]
            ELSE IF o.fail THEN [setup |-> TRUE, err |-> ErrRead, data |-> NoBytes]
            ELSE [setup |-> TRUE, err |-> NilErr, data |-> plain]
      [] o.enc \in {"br", "zstd"} ->
            IF o.wire.codec # o.enc \/ o.fail
            THEN [setup |-> TRUE, err |-> ErrRead, data |-> NoBytes]
            ELSE [setup |-> TRUE, err |-> NilErr, data |-> plain]
      [] OTHER ->
            IF o.fail THEN [setup |-> TRUE, err |-> ErrRead, data |-> NoBytes]
            ELSE [setup |-> TRUE, err |-> NilErr, data |-> o.wire]

\* json.NewDecoder(rdr).Decode(&t) on a body that was read as data.
jsonDecode(T, data) ==
    LET z == Zero(T) IN
    CASE data.codec # "id" -> [err |-> ErrSyntax, val |-> z]
      [] data.s = "" -> [err |-> ErrEOF, val |-> z]
      [] data.s = "hello" -> [err |-> ErrSyntax, val |-> z]
      [] T = "bool" /\ data.s = "true" -> [err |-> NilErr, val |-> Val(T, data)]
      [] T = "struct" /\ data.s = "{\"ok\":true}" -> [err |-> NilErr, val |-> Val(T, data)]
      [] OTHER -> [err |-> ErrType, val |-> z]

\* any(&t, dt): the switch is on the type of &t, a *T. *[]byte and *string
\* store the bytes; for every other T of the non-JSON branch the default case
\* assigns to the local t, and the destination keeps its zero value.
any(T, dt) ==
    CASE T = "[]byte" -> [err |-> NilErr, val |-> Val(T, dt)]
      [] T = "string" -> [err |-> NilErr, val |-> Val(T, dt)]
      [] OTHER -> [err |-> NilErr, val |-> Zero(T)]

\* The status check with 200 on the wrong side.
badStatusFrom200(code) == code <= 200 \/ code >= 300

\* resp.StatusCode < 200 || resp.StatusCode >= 300
badStatus(code) == code < 200 \/ code >= 300

\* ------------------------------------------------------------------ Fetch

\* The part of Fetch after the retry loop has left a response: [w, err, val].
decode(w, d, o) ==
    LET r == w.req[d]
        w1 == [w EXCEPT !.req[d].lastResponse = o.status]
        rb == readBody(o)
    IN  IF ~rb.setup
        THEN [w |-> [w1 EXCEPT !.req[d] = contextErr([@ EXCEPT !.err = rb.err], rb.err)],
              err |-> rb.err, val |-> Zero(r.T)]
        ELSE
        LET w2 == appendCookies(truncCookie(w1, d), d, o.cookies)
            w3 == IF r.retBody # "nil" /\ rb.err = NilErr
                  THEN [w2 EXCEPT !.tee = Append(@, rb.data)] ELSE w2
        IN  IF r.isJson
            THEN LET j == IF rb.err # NilErr THEN [err |-> rb.err, val |-> Zero(r.T)]
                          ELSE jsonDecode(r.T, rb.data)
                 IN  IF badStatus(o.status)
                     THEN LET e == IF j.err # NilErr THEN StatusDecodeErr(o.status, j.err)
                                   ELSE StatusErr(o.status)
                          IN  [w |-> [w3 EXCEPT !.req[d] =
                                        contextErr([@ EXCEPT !.err = e], e)],
                               err |-> e, val |-> j.val]
                     ELSE [w |-> [w3 EXCEPT !.req[d].err = j.err],
                           err |-> j.err, val |-> j.val]
            ELSE IF rb.err # NilErr
                 THEN [w |-> [w3 EXCEPT !.req[d] =
                                contextErr([@ EXCEPT !.err = rb.err], rb.err)],
                       err |-> rb.err, val |-> Zero(r.T)]
                 ELSE LET a == any(r.T, rb.data) IN
                      IF a.err # NilErr
                      THEN [w |-> [w3 EXCEPT !.req[d] =
                                     contextErr([@ EXCEPT !.err = a.err], a.err)],
                            err |-> a.err, val |-> a.val]
                      ELSE IF badStatus(o.status)
                      THEN LET e == StatusErr(o.status) IN
                           [w |-> [w3 EXCEPT !.req[d] =
                                     contextErr([@ EXCEPT !.err = e], e)],
                            err |-> e, val |-> a.val]
                      ELSE [w |-> [w3 EXCEPT !.req[d].err = NilErr],
                            err |-> NilErr, val |-> a.val]

\* Fetch on descriptor d when the transport answers o: [w, ret].
Fetch(w, d, o) ==
    LET r == w.req[d]
        c0 == Call("Fetch", d, <<>>)
        ret0 == [c0 EXCEPT !.val = Zero(r.T)]
    IN  IF r.err # NilErr THEN [w |-> w, ret |-> [ret0 EXCEPT !.err = r.err]]
        ELSE IF r.ctxErr THEN [w |-> w, ret |-> [ret0 EXCEPT !.err = ErrCanceled]]
        ELSE
        LET mk == makeRequest(w, d) IN
        IF mk.res = "panic" THEN [w |-> mk.w, ret |-> [ret0 EXCEPT !.panic = TRUE]]
        ELSE IF mk.res = "err" THEN [w |-> mk.w, ret |-> [ret0 EXCEPT !.err = mk.err]]
        ELSE
        LET sent == mk.w.req[d].finalReq
            rq == request(o)
            lp == retry(r.retryOptions, o)
            w1 == [mk.w EXCEPT !.req[d].err = rq.err]
            ret1 == [ret0 EXCEPT !.do = lp.do, !.repeat = lp.repeat,
                                 !.sleep = lp.sleep, !.sleeps = lp.sleeps,
                                 !.sent = sent, !.resp = o,
                                 !.status = IF rq.resp THEN o.status ELSE 0]
        IN  IF lp.exit = "panic" THEN [w |-> w1, ret |-> [ret1 EXCEPT !.panic = TRUE]]
            ELSE IF lp.exit = "return"
            THEN [w |-> [w1 EXCEPT !.req[d] = contextErr(@, rq.err)],
                  ret |-> [ret1 EXCEPT !.err = rq.err]]
            ELSE IF ~rq.resp THEN [w |-> w1, ret |-> [ret1 EXCEPT !.err = rq.err]]
            ELSE LET dc == decode(w1, d, o)
                     rb == readBody(o)
                 IN  [w |-> dc.w,
                      ret |-> [ret1 EXCEPT !.err = dc.err, !.val = dc.val,
                                  !.read = IF ~rb.setup THEN "setup"
                                           ELSE IF rb.err # NilErr THEN "read" ELSE "ok"]]

\* ------------------------------------------------------------- the inputs

\* What the transport answers to client.Do.
TransportErr(e) ==
    [kind |-> "err", e |-> e, status |-> 0, enc |-> "", wire |-> NoBytes,
     fail |-> FALSE, cookies |-> <<>>]
Response(status, enc, wire, fail, cookies) ==
    [kind |-> "resp", e |-> NilErr, status |-> status, enc |-> enc, wire |-> wire,
     fail |-> fail, cookies |-> cookies]

E1 == <<"dial tcp: connection refused">>
E2 == <<"net/http: timeout awaiting response headers">>

\* The answers the configuration scenarios run Fetch against.
FewOutcomes ==
    {TransportErr(E1),
     Response(200, "", Bytes("id", "hello"), FALSE, <<"s">>),
     Response(200, "", Bytes("id", "{\"ok\":true}"), FALSE, <<>>),
     Response(404, "", Bytes("id", "hello"), FALSE, <<>>)}

\* The answers the pipeline scenarios run Fetch against: a Content-Encoding with
\* a body of that encoding or a plain one, every status and body of the model, a
\* read that fails, and for the bodies without a Content-Encoding cookies or none.
Statuses == {200, 300, 404, 503}
EncCases ==
    {<<"", "id">>, <<"gzip", "gzip">>, <<"gzip", "id">>, <<"br", "br">>, <<"br", "id">>,
     <<"zstd", "zstd">>, <<"deflate", "deflate">>}
Payloads == {"", "hello", "42", "true", "{\"ok\":true}"}
AllOutcomes ==
    {TransportErr(e) : e \in {E1, E2}}
    \cup {Response(st, ec[1], Bytes(ec[2], s), FALSE, <<>>) :
            st \in Statuses, ec \in EncCases, s \in Payloads}
    \cup {Response(st, "", Bytes("id", s), FALSE, <<"s", "t">>) :
            st \in Statuses, s \in Payloads}
    \cup {Response(st, ec[1], Bytes(ec[2], "hello"), TRUE, <<>>) :
            st \in Statuses, ec \in EncCases}

\* The retry policies the model installs.
Policies ==
    {DefaultRetryOptions(n, {}, {}) : n \in 0..MaxCount}
    \cup {DefaultRetryOptions(1, {E1}, {503})}
    \cup {[DefaultRetryOptions(n, {}, {503}) EXCEPT !.kind = "custom"] : n \in {0, MaxCount}}

\* ------------------------------------------------------------ the actions

exists(d) == req[d].origin # "none"
canCall(d) == exists(d) /\ nops < MaxOps

\* The step to world w under the call c.
step(w, c) ==
    /\ req' = w.req /\ hmap' = w.hmap /\ urls' = w.urls /\ carr' = w.carr
    /\ mp' = w.mp /\ xport' = w.xport /\ tee' = w.tee
    /\ last' = c
    /\ nops' = nops + 1

CallClone(src, dst) ==
    /\ canCall(src) /\ ~exists(dst)
    /\ step(Clone(World, src, dst), Call("Clone", dst, <<>>))
    /\ hist' = [hist EXCEPT ![dst] = hist[src]]

CallClient(d, cl) ==
    canCall(d) /\ step(Client(World, d, cl), Call("Client", d, <<cl>>)) /\ hist' = hist

CallPath(d, path) ==
    canCall(d) /\ step(Path(World, d, path), Call("Path", d, <<path>>)) /\ hist' = hist

CallCookie(d, c) ==
    canCall(d) /\ step(Cookie(World, d, c), Call("Cookie", d, c)) /\ hist' = hist

CallParams(d, attr) ==
    canCall(d) /\ step(Params(World, d, attr), Call("Params", d, attr)) /\ hist' = hist

CallHeaders(d, attr) ==
    canCall(d) /\ step(Headers(World, d, attr), Call("Headers", d, attr)) /\ hist' = hist

CallMethod(d, m) ==
    /\ canCall(d) /\ step(Method(World, d, m), Call("Method", d, <<m>>))
    /\ hist' = [hist EXCEPT ![d].methodCalled = TRUE]

CallBodyJson(d, dt) ==
    /\ canCall(d) /\ step(BodyJson(World, d, dt), Call("BodyJson", d, <<dt>>))
    /\ hist' = [hist EXCEPT ![d].bodyOp = "json", ![d].body = Marshal(dt).body]

CallBodyMultipart(d, m) ==
    /\ canCall(d) /\ step(BodyMultipart(World, d, m), Call("BodyMultipart", d, <<m>>))
    /\ hist' = [hist EXCEPT ![d].bodyOp = "multipart", ![d].body = NoBytes]

CallBodyRaw(d, raw) ==
    /\ canCall(d) /\ step(BodyRaw(World, d, Bytes("id", raw)), Call("BodyRaw", d, <<raw>>))
    /\ hist' = [hist EXCEPT ![d].bodyOp = "raw", ![d].body = Bytes("id", raw)]

CallProxy(d, proxy) ==
    canCall(d) /\ step(Proxy(World, d, proxy), Call("Proxy", d, <<proxy>>)) /\ hist' = hist

CallToBody(d, b) ==
    canCall(d) /\ step(ToBody(World, d, b), Call("ToBody", d, <<b>>)) /\ hist' = hist

CallRetry(d, options) ==
    /\ canCall(d)
    /\ step(Retry(World, d, options), Call("Retry", d, <<options.kind>>))
    /\ hist' = hist

\* Fetch gets as far as client.Do: the transport's answer is an input of the call
\* only then.
reachesTransport(w, d) ==
    /\ w.req[d].err = NilErr /\ ~w.req[d].ctxErr
    /\ makeRequest(w, d).res = "ok"

\* Fetch on d, the transport answering one of O if it is asked.
CallFetch(d, O) ==
    /\ canCall(d)
    /\ \E o \in IF reachesTransport(World, d) THEN O ELSE {TransportErr(E1)} :
          LET f == Fetch(World, d, o) IN step(f.w, f.ret)
    /\ hist' = [hist EXCEPT ![d].fetched = TRUE]

\* ------------------------------------------------------ the specifications

\* The state after New[T](ctx, link) on descriptor 1; descriptor 2 does not exist.
Constructed(T, link) ==
    LET w0 == [req |-> [d \in Desc |-> NoRequest],
               hmap |-> [i \in Desc |-> NoHeaders],
               urls |-> [i \in Desc |-> [path |-> "", query |-> NoQuery]],
               carr |-> [i \in Desc |-> <<>>],
               mp |-> [m \in Builders |-> [ctxErr |-> m = "mErr", made |-> FALSE]],
               xport |-> [c \in Clients |->
                            [kind |-> IF c = "default" THEN "nil" ELSE "other",
                             proxy |-> ""]],
               tee |-> <<>>]
    IN  New(w0, 1, T, link)

\* The variables hold world w, reached by the call c, with no operation counted.
start(w, c) ==
    /\ req = w.req /\ hmap = w.hmap /\ urls = w.urls /\ carr = w.carr
    /\ mp = w.mp /\ xport = w.xport /\ tee = w.tee
    /\ last = c
    /\ hist = [d \in Desc |-> NoHist]
    /\ nops = 0

\* Every configuration operation, with small inputs.
Configure(d) ==
    \/ \E cl \in Clients : CallClient(d, cl)
    \/ CallPath(d, "/post")
    \/ \E c \in {<<>>, <<"a", "b">>} : CallCookie(d, c)
    \/ \E attr \in {<<"a">>, <<"a", "1">>, <<"a", "2">>} : CallParams(d, attr)
    \/ \E attr \in {<<"X">>, <<"X", "1">>, <<"X", "2">>, <<"X", "1", "X">>} :
          CallHeaders(d, attr)
    \/ \E m \in {"GET", "PUT", "FOO", "B D"} : CallMethod(d, m)
    \/ \E dt \in {"obj", "chan"} : CallBodyJson(d, dt)
    \/ \E m \in Builders : CallBodyMultipart(d, m)
    \/ \E raw \in {"", "hello"} : CallBodyRaw(d, raw)
    \/ \E p \in {" ", " http://p ", ":bad"} : CallProxy(d, p)
    \/ \E b \in {"nil", "B1"} : CallToBody(d, b)
    \/ \E p \in {emptyOptions, DefaultRetryOptions(1, {}, {})} : CallRetry(d, p)

\* A descriptor made by New, then any calls on it and on a clone of it.
Init ==
    \E c \in {<<"string", "http://h/get">>, <<"struct", "http://h/get">>,
               <<"string", "http://h/get?a=">>, <<"string", ":bad">>} :
        start(Constructed(c[1], c[2]), Call("New", 1, <<c[2]>>))

Next ==
    \/ CallClone(1, 2)
    \/ \E d \in Desc : Configure(d)
    \/ \E d \in Desc : CallFetch(d, FewOutcomes)

Spec == Init /\ [][Next]_vars

\* The idiom of examples/get_use_path.go: a base descriptor made by New and a
\* Clone of it, then any calls on the two.
InitClone ==
    \E T \in {"string", "struct"} :
        start(Clone(Constructed(T, "http://h/get"), 1, 2), Call("Clone", 2, <<>>))

NextClone ==
    \/ \E d \in Desc : Configure(d)
    \/ \E d \in Desc : CallFetch(d, FewOutcomes)

SpecClone == InitClone /\ [][NextClone]_vars

\* The pipeline scenarios: one descriptor of any destination type, any policy,
\* Fetch against every answer of the transport.
InitFetch ==
    \E T \in DestTypes :
        start(Constructed(T, "http://h/get"), Call("New", 1, <<"http://h/get">>))

NextFetch ==
    \/ \E p \in Policies : CallRetry(1, p)
    \/ CallToBody(1, "B1")
    \/ CallCookie(1, <<"a", "b">>)
    \/ CallFetch(1, IF hist[1].fetched THEN FewOutcomes ELSE AllOutcomes)

SpecFetch == InitFetch /\ [][NextFetch]_vars

\* Params on one descriptor, from URLs whose query holds no a, an empty a, one a
\* and two.
InitParams ==
    \E link \in {"http://h/get", "http://h/get?a=", "http://h/get?a=1",
                 "http://h/two?a=1&a=2"} :
        start(Constructed("string", link), Call("New", 1, <<link>>))

NextParams ==
    \/ \E attr \in {<<"a">>, <<"a", "">>, <<"a", "1">>, <<"a", "2">>} : CallParams(1, attr)
    \/ CallPath(1, "/post")

SpecParams == InitParams /\ [][NextParams]_vars

\* Two descriptors made by two calls of New, then Proxy and Fetch on either.
InitProxy ==
    \E T \in {"string", "struct"} :
        start(New(Constructed(T, "http://h/get"), 2, T, "http://h/get?a=1"),
              Call("New", 2, <<"http://h/get?a=1">>))

NextProxy ==
    \/ \E d \in Desc : \E p \in {" ", " http://p ", "http://q", ":bad"} : CallProxy(d, p)
    \/ \E d \in Desc : CallFetch(d, FewOutcomes)

SpecProxy == InitProxy /\ [][NextProxy]_vars

\* ---------------------------------------------------------------- claims

\* The last call was a Fetch that got a response from the transport.
gotResponse == last.op = "Fetch" /\ last.status # 0 /\ ~last.panic

\* C1 as stated: whenever Fetch gets a response whose status is outside
\* [200,300), it returns a non-nil error whose message contains the status line.
C1_StatusErrorNamesStatus ==
    gotResponse /\ (last.status < 200 \/ last.status >= 300)
        => last.err # NilErr /\ Contains(last.err, StatusLine(last.status))

\* The answer of the transport, as far as Repeat looks at it, of the last Fetch.
lastOutcome ==
    IF last.status = 0 THEN TransportErr(last.err)
    ELSE Response(last.status, "", NoBytes, FALSE, <<>>)

\* C2 as stated: under DefaultRetryOptions{Count: N}, a Fetch whose attempts all
\* make Repeat return true invokes the transport exactly N+1 times.
C2_RetryBound ==
    LET p == req[last.d].retryOptions IN
    last.op = "Fetch" /\ last.do > 0 /\ p.kind = "default" /\ Repeat(p, lastOutcome)
        => last.do = p.Count + 1

\* The fields of a descriptor a caller can tell apart, pointers followed.
view(d) ==
    [url |-> urlOf(World, d), method |-> req[d].method, headers |-> headersOf(World, d),
     cookie |-> cookieList(World, d), body |-> req[d].body,
     multipart |-> req[d].multipart, client |-> req[d].client, proxy |-> req[d].proxy,
     retBody |-> req[d].retBody, retryOptions |-> req[d].retryOptions,
     err |-> req[d].err, ctxErr |-> req[d].ctxErr]

ConfigOps ==
    {"Client", "Path", "Cookie", "Params", "Headers", "Method", "BodyJson",
     "BodyMultipart", "BodyRaw", "Proxy", "ToBody", "Retry"}

\* C3 as stated: on a descriptor in the terminal error state every configuration
\* operation leaves every field unchanged.
C3_ConfigNoOpAfterError ==
    [][\A d \in Desc :
        req[d].ctxErr /\ last'.d = d /\ last'.op \in ConfigOps => view(d)' = view(d)]_vars

\* C4: a configuration operation that puts the descriptor into the terminal error
\* state stores its error; the stored error stays through every later call; and
\* Fetch on such a descriptor returns it without a call to the transport or to
\* the retry policy, the last response and the cookie list left as they were.
C4_FetchSurfacesConfigError ==
    [][\A d \in Desc :
        /\ last.op = "New" /\ last.d = d /\ req[d].ctxErr => req[d].err = ErrParse
        /\ last'.d = d /\ last'.op \in ConfigOps /\ ~req[d].ctxErr /\ req'[d].ctxErr
              => req'[d].err # NilErr
        /\ exists(d) /\ req[d].ctxErr /\ req[d].err # NilErr
              => req'[d].ctxErr /\ req'[d].err = req[d].err
        /\ last'.op = "Fetch" /\ last'.d = d /\ req[d].ctxErr /\ req[d].err # NilErr
              => /\ last'.err = req[d].err /\ ~last'.panic
                 /\ last'.do = 0 /\ last'.repeat = 0 /\ last'.sleep = 0
                 /\ req'[d].lastResponse = req[d].lastResponse
                 /\ cookieList(World, d)' = cookieList(World, d)]_vars

\* Fetch has returned the error of an odd-length Params, the transport not called.
C4_Witness ==
    /\ last.op = "Fetch" /\ last.err = ErrParams /\ last.do = 0
    /\ req[last.d].ctxErr /\ req[last.d].err = ErrParams

\* What Clone should not leave shared: header map, URL, cookie list.
shared(d) ==
    [headers |-> headersOf(World, d), url |-> urlOf(World, d),
     cookie |-> cookieList(World, d)]

\* C5 as stated: after c = r.Clone(), no call on c changes r's header map, URL or
\* cookie list, and no call on r changes c's.
C5_CloneIndependent ==
    [][\A d \in Desc :
        /\ req[1].origin = "New" /\ req[2].origin = "Clone"
        /\ last'.d = d /\ last'.op \in ConfigOps \cup {"Fetch"}
        => shared(Other(d))' = shared(Other(d))]_vars

\* C6 as stated: a Fetch that returns a non-nil error leaves the descriptor in the
\* terminal error state.
C6_FetchErrorLatches ==
    [][\A d \in Desc :
        last'.op = "Fetch" /\ last'.d = d /\ last'.err # NilErr => req'[d].ctxErr]_vars

\* C7 as stated: the body of the request Fetch sends comes from the body source
\* the last body-setting call set.
C7_LastBodyWins ==
    LET h == hist[last.d] IN
    last.op = "Fetch" /\ last.sent.st = "req"
        => /\ h.bodyOp = "multipart" => last.sent.src = "multipart"
           /\ h.bodyOp \in {"raw", "json"}
                 => last.sent.src # "multipart" /\ last.sent.body = h.body

\* C8 as stated: on a descriptor made by New, a non-empty BodyRaw and no Method
\* call, Fetch sends a POST request to the transport.
C8_RawBodyPosts ==
    [][\A d \in Desc :
        /\ last'.op = "Fetch" /\ last'.d = d
        /\ req[d].origin = "New" /\ ~req[d].ctxErr /\ req[d].err = NilErr
        /\ hist[d].bodyOp = "raw" /\ len(hist[d].body) > 0 /\ ~hist[d].methodCalled
        => ~last'.panic /\ last'.do >= 1 /\ last'.sent.Method = "POST"]_vars

\* C9 as stated: Method(m) puts the descriptor into the terminal error state
\* when m is not a standard method, and sets the method to m without an error
\* when it is.
C9_MethodValidatesArgument ==
    [][\A d \in Desc :
        last'.op = "Method" /\ last'.d = d /\ ~req[d].ctxErr
        => LET m == last'.args[1] IN
           /\ m \notin StdMethods => req'[d].ctxErr
           /\ m \in StdMethods
                 => req'[d].method = m /\ ~req'[d].ctxErr /\ req'[d].err = req[d].err]_vars

\* The call was Headers with an odd number of arguments, on a descriptor that is
\* not in the terminal error state.
oddHeaders(d) ==
    last'.op = "Headers" /\ last'.d = d /\ Len(last'.args) % 2 = 1 /\ ~req[d].ctxErr

pairsOf(attr, k) == {i \in 1..(Len(attr) \div 2) : attr[2 * i - 1] = k}

called(op, d, n) ==
    last'.op = op /\ last'.d = d /\ Len(last'.args) = n /\ ~req[d].ctxErr

\* C11: Params with an odd number of arguments stores its error, puts the
\* descriptor into the terminal error state and leaves the URL as it was.
C11_OddParamsRejected ==
    [][\A d \in Desc : \A n \in {1, 3} :
        called("Params", d, n)
        => /\ req'[d].ctxErr /\ req'[d].err = ErrParams
           /\ urls' = urls /\ req'[d].u = req[d].u]_vars

\* Params("a") has acted on a URL with the query a=: the query is still a=.
C11_Witness ==
    /\ last.op = "Params" /\ last.args = <<"a">>
    /\ req[last.d].ctxErr /\ req[last.d].err = ErrParams
    /\ urlOf(World, last.d).query["a"] = <<"">>

\* C12 as stated: Params(k, v1) followed by Params(k, v2), v1 and v2 not empty,
\* leaves the query with exactly one value of k, v2.
C12_ParamsIdempotentByKey ==
    [][\A d \in Desc :
        /\ last.op = "Params" /\ last.d = d /\ Len(last.args) = 2 /\ last.args[2] # ""
        /\ called("Params", d, 2) /\ last'.args[1] = last.args[1] /\ last'.args[2] # ""
        => urlOf(World, d)'.query[last'.args[1]] = <<last'.args[2]>>]_vars

\* C13: Headers(X, v1) followed by Headers(X, v2) leaves X with the values it
\* had, then v1, then v2; and the request Fetch sends carries, for every key of
\* the descriptor's header map, the list the map holds.
C13_HeadersCumulative ==
    [][\A d \in Desc :
        /\ /\ last.op = "Headers" /\ last.d = d /\ Len(last.args) = 2
           /\ called("Headers", d, 2) /\ last'.args[1] = last.args[1]
           => LET k == last.args[1]
                  h == headersOf(World, d)[k]
              IN  /\ Len(h) >= 1 /\ h[Len(h)] = last.args[2]
                  /\ headersOf(World, d)'[k] = Append(h, last'.args[2])
        /\ last'.op = "Fetch" /\ last'.d = d /\ last'.sent.st = "req"
           => \A k \in HKeys :
                 headersOf(World, d)[k] # <<>>
                    => last'.sent.Header[k] = headersOf(World, d)[k]]_vars

\* Headers("X", "1") and Headers("X", "2") have acted and Fetch has sent X: 1, 2.
C13_Witness ==
    /\ last.op = "Fetch" /\ last.sent.st = "req"
    /\ headersOf(World, last.d)["X"] = <<"1", "2">>
    /\ last.sent.Header["X"] = <<"1", "2">>

\* The last call was a Fetch that read the whole body of a response with the
\* given status, sent without a Content-Encoding.
plainBody(status, body) ==
    /\ gotResponse /\ last.status = status /\ last.read = "ok"
    /\ last.resp.enc = "" /\ last.resp.wire = Bytes("id", body)

\* The destination type of the descriptor of the last call.
lastT == req[last.d].T

\* C14 as stated: on a 2xx response, an int destination gets 42 from the body
\* "42" and a decode error from a non-numeric body, a bool destination gets true
\* from "true", a string destination gets "hello" from "hello", and a []byte
\* destination gets the bytes of the body.
C14_DecodeMatrix ==
    /\ plainBody(200, "42") /\ lastT = "int"
          => last.err = NilErr /\ last.val = Val("int", Bytes("id", "42"))
    /\ plainBody(200, "hello") /\ lastT = "int" => last.err # NilErr
    /\ plainBody(200, "true") /\ lastT = "bool"
          => last.err = NilErr /\ last.val = Val("bool", Bytes("id", "true"))
    /\ plainBody(200, "hello") /\ lastT = "string"
          => last.err = NilErr /\ last.val = Val("string", Bytes("id", "hello"))
    /\ \A b \in Payloads :
          plainBody(200, b) /\ lastT = "[]byte"
             => last.err = NilErr /\ last.val = Val("[]byte", Bytes("id", b))

\* The bodies of the model that are a value of destination type T.
decodable(T) ==
    CASE T = "int" -> {"42"}
      [] T = "bool" -> {"true"}
      [] T = "struct" -> {"{\"ok\":true}"}
      [] OTHER -> Payloads

\* C15 as stated: when the status is outside [200,300) and the body is a value of
\* the destination type, Fetch returns that value together with the status error.
C15_DecodedValueWithStatusError ==
    \A st \in Statuses : \A b \in decodable(lastT) :
        (st < 200 \/ st >= 300) /\ plainBody(st, b)
            => /\ last.val = Val(lastT, Bytes("id", b))
               /\ last.err = StatusErr(st)

\* The last call was a Fetch that read the whole body of a response whose body
\* is `body`, sent as it is or compressed as its Content-Encoding (gzip, br or
\* zstd) says.
sentBody(body) ==
    /\ gotResponse /\ last.read = "ok" /\ ~last.resp.fail /\ last.resp.wire.s = body
    /\ \/ last.resp.enc = "" /\ last.resp.wire.codec = "id"
       \/ last.resp.enc \in {"gzip", "br", "zstd"} /\ last.resp.wire.codec = last.resp.enc

\* C16: a descriptor with a JSON-classified destination type on which no body was
\* set gets, from a 200 response whose body is valid JSON for the type, the
\* decoded value and a nil error, and is not in the terminal error state.
C16_JsonOk ==
    \A b \in decodable(lastT) :
        /\ lastT \in {"bool", "struct"} /\ hist[last.d].bodyOp = "none"
        /\ last.status = 200 /\ sentBody(b)
        => /\ req[last.d].isJson
           /\ last.err = NilErr /\ last.val = Val(lastT, Bytes("id", b))
           /\ ~req[last.d].ctxErr /\ req[last.d].err = NilErr

\* A struct destination got {"ok":true} from a gzip-compressed 200 response.
C16_Witness ==
    /\ lastT = "struct" /\ last.status = 200 /\ sentBody("{\"ok\":true}")
    /\ last.resp.enc = "gzip"
    /\ last.val = Val("struct", Bytes("id", "{\"ok\":true}")) /\ last.err = NilErr

\* C17: with Content-Encoding gzip, br or zstd and a body compressed with that
\* codec the decoder gets the bytes that were compressed; with any other
\* Content-Encoding, or none, it gets the bytes of the body as they were sent.
\* What the decoder got is what a string or []byte destination returns, and what
\* a tee buffer holds.
C17_EncodingSelectsReader ==
    gotResponse /\ last.status = 200 /\ ~last.resp.fail /\ lastT \in {"string", "[]byte"}
        => LET o == last.resp
               got == IF o.enc \in {"gzip", "br", "zstd"} THEN Bytes("id", o.wire.s)
                      ELSE o.wire
           IN  (o.enc \in {"gzip", "br", "zstd"} => o.wire.codec = o.enc)
                  => /\ last.err = NilErr /\ last.val = Val(lastT, got)
                     /\ req[last.d].retBody # "nil" => tee[Len(tee)] = got

\* A string destination got "hello" from a br-compressed body.
C17_Witness ==
    /\ gotResponse /\ last.status = 200 /\ lastT = "string"
    /\ last.resp.enc = "br" /\ last.resp.wire = Bytes("br", "hello")
    /\ last.val = Val("string", Bytes("id", "hello")) /\ last.err = NilErr

\* C18 as stated: a body sent with Content-Encoding deflate is decompressed before
\* it is decoded.
C18_DeflateDecoded ==
    /\ gotResponse /\ last.status = 200 /\ ~last.resp.fail /\ lastT = "string"
    /\ last.resp.enc = "deflate" /\ last.resp.wire.codec = "deflate"
    => last.err = NilErr /\ last.val = Val("string", Bytes("id", last.resp.wire.s))

\* C19: a descriptor that holds the policy New gave it, emptyOptions, calls the
\* transport exactly once in every Fetch that has materialized its request,
\* whatever the answer, and never calls Sleep.
C19_NoRetryByDefault ==
    /\ last.op = "Fetch" /\ last.sent.st = "req"
    /\ req[last.d].retryOptions = emptyOptions
    => /\ last.do = 1 /\ last.sleep = 0 /\ ~last.panic
       /\ last.resp.kind \in {"err", "resp"}

\* Without a policy a 503 was fetched with one call of the transport.
C19_Witness ==
    /\ last.op = "Fetch" /\ req[last.d].retryOptions = emptyOptions
    /\ last.status = 503 /\ last.do = 1 /\ last.repeat = 1 /\ last.sleep = 0

\* C20: Clone gives the clone the error state of the original, by value; after
\* it no configuration call and no Fetch on one of the two changes the stored
\* error or the cancellation of the other; and a descriptor that is not in the
\* terminal error state while the other is still takes a Path call, and its
\* Fetch, with no body to send and a method http.NewRequest accepts, still calls
\* the transport.
C20_CloneErrorSlotIndependent ==
    [][/\ last'.op = "Clone"
           => req'[2].ctxErr = req[1].ctxErr /\ req'[2].err = req[1].err
       /\ \A d \in Desc :
            /\ req[1].origin = "New" /\ req[2].origin = "Clone" /\ last'.d = d
            /\ last'.op \in ConfigOps \cup {"Fetch"}
            => LET o == Other(d) IN
               /\ req'[o].ctxErr = req[o].ctxErr /\ req'[o].err = req[o].err
               /\ req[o].ctxErr /\ called("Path", d, 1)
                     => urlOf(World, d)'.path = last'.args[1]
               /\ /\ req[o].ctxErr /\ called("Fetch", d, 0) /\ req[d].err = NilErr
                  /\ len(req[d].body) = 0 /\ req[d].multipart = "nil"
                  /\ NewRequestMethodOk(req[d].method)
                  => last'.do = 1 /\ ~last'.panic]_vars

\* The clone is in the terminal error state, with an error of its own, and the
\* original's Fetch has reached the transport.
C20_Witness ==
    /\ req[2].origin = "Clone" /\ req[2].ctxErr /\ req[2].err # NilErr
    /\ last.op = "Fetch" /\ last.d = 1 /\ last.do = 1 /\ ~req[1].ctxErr

\* The policy of the descriptor of the last call.
lastPolicy == req[last.d].retryOptions

\* C21 as stated: Repeat of DefaultRetryOptions, asked about the answer of the
\* transport, is true for a response exactly when its status is in
\* HttpStatusCodes or the list is empty, and for a transport error exactly when
\* the error is in HttpErrors or the list is empty.
C21_RepeatMatchesAllowLists ==
    last.op = "Fetch" /\ last.repeat >= 1 /\ lastPolicy.kind = "default"
        => LET p == lastPolicy
               o == last.resp
           IN  Repeat(p, o) =
                  IF o.kind = "resp"
                  THEN p.HttpStatusCodes = {} \/ o.status \in p.HttpStatusCodes
                  ELSE p.HttpErrors = {} \/ o.e \in p.HttpErrors

\* C22: under every policy, when the transport returns an error, Fetch has called
\* the transport once, asked Repeat once, not called Sleep, and returns the error.
C22_TransportErrorEndsLoop ==
    last.op = "Fetch" /\ last.resp.kind = "err"
        => /\ last.do = 1 /\ last.repeat = 1 /\ last.sleep = 0 /\ ~last.panic
           /\ last.err = last.resp.e /\ last.err # NilErr

\* Under DefaultRetryOptions with an empty HttpErrors, where Repeat says yes, a
\* transport error was returned after one call.
C22_Witness ==
    /\ last.op = "Fetch" /\ last.resp = TransportErr(E2)
    /\ lastPolicy = DefaultRetryOptions(MaxCount, {}, {})
    /\ Repeat(lastPolicy, last.resp)
    /\ last.do = 1 /\ last.repeat = 1 /\ last.sleep = 0 /\ last.err = E2

\* C23 as stated: every Repeat decision of a Fetch is taken on the outcome of a
\* transport call of its own: Fetch calls the transport as often as it asks
\* Repeat.
C23_RepeatSeesFreshOutcome ==
    last.op = "Fetch" /\ last.do >= 1 /\ ~last.panic => last.do = last.repeat

\* The counters 1, 2, ..., n.
upTo(n) == [i \in 1..n |-> i]

C25_CookieCaptureReplaces ==
    gotResponse /\ last.read # "setup"
        => cookieList(World, last.d) = last.resp.cookies

\* A descriptor that held the cookies a, b got a 404 without cookies: its list is
\* empty, over the array that still holds a and b.
C25_Witness ==
    /\ gotResponse /\ last.status = 404 /\ last.resp.cookies = <<>>
    /\ cookieList(World, last.d) = <<>>
    /\ req[last.d].cookie.arr # 0 /\ carr[req[last.d].cookie.arr] = <<"a", "b">>

\* C26 as stated: BodyMultipart with a builder that carries an error leaves the
\* error state of the descriptor as it was; Fetch then returns the builder's
\* error, without a call of the transport, and puts the descriptor into the
\* terminal error state.
C26_MultipartErrorFailsFast ==
    [][\A d \in Desc :
        /\ called("BodyMultipart", d, 1) /\ mp[last'.args[1]].ctxErr
              => ~req'[d].ctxErr /\ req'[d].err = req[d].err
        /\ /\ called("Fetch", d, 0) /\ req[d].err = NilErr /\ len(req[d].body) = 0
           /\ req[d].multipart # "nil" /\ mp[req[d].multipart].ctxErr
           => /\ last'.err = ErrMultipart /\ last'.do = 0 /\ ~last'.panic
              /\ req'[d].ctxErr]_vars

\* C27 as stated: Params(k, v) replaces the value of k when the query holds
\* exactly one value of k, not empty, and appends v to the values of k in every
\* other case.
C27_ParamsReplacesSingleValue ==
    [][\A d \in Desc :
        called("Params", d, 2)
        => LET k == last'.args[1]
               v == last'.args[2]
               q == urlOf(World, d).query[k]
           IN  urlOf(World, d)'.query[k] =
                  IF Len(q) = 1 /\ q[1] # "" THEN <<v>> ELSE Append(q, v)]_vars

\* C27 as amended: Params(k, v) leaves v as the only value of k when the first
\* value of k is not empty, however many values k has, and appends v to the
\* values of k when k has no value or its first value is empty.
C27_ParamsReplacesByFirstValue ==
    [][\A d \in Desc :
        called("Params", d, 2)
        => LET k == last'.args[1]
               v == last'.args[2]
               q == urlOf(World, d).query[k]
           IN  /\ urlOf(World, d)'.query[k] =
                     IF q # <<>> /\ q[1] # "" THEN <<v>> ELSE Append(q, v)
               /\ ~req'[d].ctxErr /\ req'[d].err = req[d].err
               /\ urlOf(World, d)'.path = urlOf(World, d).path]_vars

\* Params("a", "2") has acted on the URL http://h/two?a=1&a=2: a is 2 alone.
C27_Witness ==
    /\ last.op = "Params" /\ last.args = <<"a", "2">> /\ nops = 1
    /\ urlOf(World, last.d).path = "/two"
    /\ urlOf(World, last.d).query["a"] = <<"2">>

\* C28 as stated: a descriptor made by New and a clone, configured alike, fare
\* alike under Fetch: against the same answer of the transport the request sent,
\* the value and the error returned are the same, and neither Fetch stops before
\* the transport is called without returning an error.
C28_CloneFetchesLikeOriginal ==
    req[1].origin = "New" /\ req[2].origin = "Clone" /\ view(1) = view(2)
        => \A o \in FewOutcomes :
              LET a == Fetch(World, 1, o).ret
                  b == Fetch(World, 2, o).ret
              IN  /\ a.sent = b.sent /\ a.val = b.val /\ a.err = b.err
                  /\ a.do = b.do /\ a.panic = b.panic
                  /\ \A x \in {a, b} : x.do = 0 => x.err # NilErr /\ ~x.panic

\* The transport configuration the Fetch of descriptor d runs with: that of the
\* client d points to.
transportOf(d) == xport[req[d].client]

\* C29 as stated: of two descriptors made by separate calls of New, with no call
\* of Client, Proxy(p) with a well-formed non-empty p on one leaves the transport
\* configuration of the other's Fetch as it was.
C29_ProxyAffectsOnlyItsDescriptor ==
    [][\A d \in Desc :
        /\ req[1].origin = "New" /\ req[2].origin = "New"
        /\ called("Proxy", d, 1)
        /\ TrimSpace(last'.args[1]) # "" /\ ProxyParses(TrimSpace(last'.args[1]))
        => transportOf(Other(d))' = transportOf(Other(d))]_vars

====
